---- MODULE Spec2Model ----
(***************************************************************************)
(* Timeline playback of PIXI.animate.MovieClip (src/unnamed/part_000).     *)
(*                                                                         *)
(* A movie clip is a record of its fields; the display tree is the         *)
(* function `nodes` from clip ids to records.  Every public method is one  *)
(* action; the private methods (_goto, _updateTimeline,                    *)
(* _setTimelinePosition) are operators from a store to a store that the    *)
(* actions call, so that one action is one whole call of the method.       *)
(*                                                                         *)
(* A store is [nodes, log]: `log` lists, in program order, what a call     *)
(* did to its collaborators (tween setPosition, addChild, removeChild,     *)
(* frame scripts) and which passes it ran.                                 *)
(*                                                                         *)
(* Time is counted in ticks of 1/TicksPerSecond seconds, a resolution at   *)
(* which pos / framerate and totalFrames / framerate are whole numbers of  *)
(* ticks and Math.floor(t * framerate + 0.00000001) rounds half frames     *)
(* down.                                                                   *)
(***************************************************************************)
EXTENDS Integers, Sequences, FiniteSets, TLC

VARIABLES nodes, log, lastOp

vars == <<nodes, log, lastOp>>

(***************************************************************************)
(* Bounds of the model.                                                    *)
(***************************************************************************)
\* registrations start at frames 0..MaxFrame
MaxFrame == 1
\* elapsed time never exceeds MaxT ticks (advance is not taken beyond it)
MaxT == 6
\* at most MaxTweens tween segments per timeline
MaxTweens == 1
\* at most MaxActions frame scripts per clip
MaxActions == 2
\* the longest keyframe string given to addKeyframes, in characters
MaxKeyLen == 7

(***************************************************************************)
(* Program constants.                                                      *)
(***************************************************************************)
INDEPENDENT == 0
SINGLE_FRAME == 1
SYNCHED == 2
\* the initial value of _prevPos: "never resolved"
NeverResolved == -1
\* JavaScript's NaN, which no frame number of the model reaches
NaN == -1000
\* JavaScript's undefined, what _labelDict gives for a name that neither it
\* nor Object.prototype holds
Undefined == -2000
\* Object.prototype.toString and Object.prototype.constructor, the functions
\* a plain object gives for the names "toString" and "constructor"
ObjectToString == -3001
ObjectConstructor == -3002

Modes == {INDEPENDENT, SINGLE_FRAME, SYNCHED}

\* the clips of the model, and the parent of a clip that has none
Root == "root"
Child == "child"
Leaf == "leaf"
Nodes == {Root, Child, Leaf}
NoParent == "none"

\* framerates given to the framerate setter, in frames per second
Framerates == {0, 1}
\* a tick is half a frame at the highest framerate
TicksPerSecond == 2 * (CHOOSE f \in Framerates : \A g \in Framerates : f >= g)

\* the labels every clip of the model is constructed with
LabelDict == [start |-> 0, mid |-> 1]
\* label names passed to gotoAndPlay / gotoAndStop
LabelNames == {"start", "mid", "nope", "toString", "constructor"}
\* what the labels object, a plain object, inherits from Object.prototype
ObjectPrototype ==
  [toString |-> ObjectToString, constructor |-> ObjectConstructor]
\* tween targets
Targets == {"a"}
\* durations passed to addTween
TweenDurations == {0, 1}
\* durations passed to addTimedChild; 0 takes the "duration < 1" branch
ChildDurations == {0, 1, 2}
\* time deltas passed to advance, in ticks
Deltas == {0, 1, 2, 3}
\* times given to the setter of elapsedTime, in ticks: 0 to 1 second
ElapsedTimes == 0..TicksPerSecond
\* frame numbers passed to gotoAndPlay / gotoAndStop
SeekFrames == 0..(MaxFrame + 2)
\* the longest clip addTimedChild builds
MaxTotalFrames == MaxFrame + 2

(***************************************************************************)
(* JavaScript numbers: comparisons with NaN are false, arithmetic on NaN   *)
(* is NaN, x % 0 is NaN and % takes the sign of the dividend.  A function  *)
(* converts to NaN in -, /, % and Math.min (function + 1 is a string,      *)
(* which the code only hands to Math.min).  In <, <= and >= a function     *)
(* against a number converts to NaN, and two functions are compared as     *)
(* their texts: "function Object() { [native code] }" comes before         *)
(* "function toString() { [native code] }", as ObjectConstructor comes     *)
(* before ObjectToString.  == holds between a function and itself and      *)
(* between nothing else and a function.                                    *)
(***************************************************************************)
\* isNaN(x): x is not a number once converted to one
IsNaN(x) == x \in {NaN, ObjectToString, ObjectConstructor}
\* a and b can be ordered: two numbers, or two functions
Ordered(a, b) ==
  \E x \in {a}, y \in {b} :
    \/ ~IsNaN(x) /\ ~IsNaN(y)
    \/ {x, y} \subseteq {ObjectToString, ObjectConstructor}
NumLt(a, b) == Ordered(a, b) /\ a < b
NumLe(a, b) == Ordered(a, b) /\ a <= b
NumGe(a, b) == Ordered(a, b) /\ a >= b
NumAdd(a, b) == IF IsNaN(a) \/ IsNaN(b) THEN NaN ELSE a + b
NumSub(a, b) == IF IsNaN(a) \/ IsNaN(b) THEN NaN ELSE a - b
JsMod(a, b) ==
  IF IsNaN(a) \/ IsNaN(b) \/ b = 0 THEN NaN
  ELSE IF a >= 0 THEN a % b ELSE 0 - ((0 - a) % b)
\* Math.min
MathMin(a, b) == IF IsNaN(a) \/ IsNaN(b) THEN NaN ELSE IF a < b THEN a ELSE b
\* a == b: false for NaN, true for a number or a function and itself
LooseEq(a, b) == a # NaN /\ a = b

(***************************************************************************)
(* The constructor.  options.framerate goes through the framerate setter   *)
(* after _totalFrames has been set to options.duration.                    *)
(***************************************************************************)
FramerateSet(nd, value) ==
  IF value > 0
  THEN [nd EXCEPT !.framerate = value,
                  !.duration = (nd.totalFrames * TicksPerSecond) \div value]
  ELSE [nd EXCEPT !.framerate = 0, !.duration = 0]

NewMovieClip(mode, startPosition, loop, optDuration, optFramerate) ==
  LET nd == [mode |-> mode,
             startPosition |-> startPosition,
             loop |-> loop,
             currentFrame |-> 0,
             paused |-> FALSE,
             actionsEnabled |-> TRUE,
             autoReset |-> TRUE,
             synchOffset |-> 0,
             prevPos |-> NeverResolved,
             t |-> 0,
             framerate |-> optFramerate,
             duration |-> 0,
             totalFrames |-> optDuration,
             optDuration |-> optDuration,
             timelines |-> <<>>,
             timedChildTimelines |-> <<>>,
             actions |-> <<>>,
             parent |-> NoParent,
             parentStartPosition |-> NaN,
             children |-> <<>>,
             wasRemoved |-> FALSE,
             tickListener |-> TRUE]
  IN IF optFramerate # 0 THEN FramerateSet(nd, optFramerate) ELSE nd

(***************************************************************************)
(* Stores.                                                                 *)
(***************************************************************************)
Emit(s, e) == [s EXCEPT !.log = Append(@, e)]

RemoveFromSeq(q, x) == SelectSeq(q, LAMBDA y : y # x)

\* Container.addChild: a child leaves the parent it had and is pushed last
AddChild(s, n, c) ==
  LET old == s.nodes[c].parent
      s1 == IF old = NoParent THEN s
            ELSE [s EXCEPT !.nodes[old].children = RemoveFromSeq(@, c)]
  IN [s1 EXCEPT !.nodes[c].parent = n,
                !.nodes[n].children = Append(@, c)]

\* Container.removeChild; wasRemoved remembers that a pass took the clip
\* off its parent
RemoveChild(s, n, c) ==
  [s EXCEPT !.nodes[c].parent = NoParent,
            !.nodes[c].wasRemoved = TRUE,
            !.nodes[n].children = RemoveFromSeq(@, c)]

\* Container.removeChildren: every child of the clip is taken off it
RECURSIVE RemoveChildren(_, _)
RemoveChildren(s, n) ==
  IF s.nodes[n].children = <<>> THEN s
  ELSE RemoveChildren(RemoveChild(s, n, s.nodes[n].children[1]), n)

\* _reset
Reset(nd) == [nd EXCEPT !.prevPos = NeverResolved, !.t = 0, !.currentFrame = 0]

(***************************************************************************)
(* _setTimelinePosition, in four steps: tweens, timed children, synched    *)
(* children, frame scripts.                                                *)
(***************************************************************************)

\* the index (from 1) of the first tween of the timeline that contains the
\* frame, or 0
FirstTweenAt(tweens, currentFrame) ==
  LET hits == {j \in 1..Len(tweens) :
                 /\ NumGe(currentFrame, tweens[j].startFrame)
                 /\ NumLe(currentFrame, tweens[j].endFrame)}
  IN IF hits = {} THEN 0 ELSE CHOOSE j \in hits : \A k \in hits : j <= k

\* a pass that sets every tween that contains the frame, not the first only
RECURSIVE EmitEveryTween(_, _, _, _, _)
EmitEveryTween(s, n, timeline, currentFrame, j) ==
  IF j > Len(timeline.tweens) THEN s
  ELSE LET hit == /\ NumGe(currentFrame, timeline.tweens[j].startFrame)
                  /\ NumLe(currentFrame, timeline.tweens[j].endFrame)
           s1 == IF hit
                 THEN Emit(s, [ev |-> "setPosition", node |-> n,
                               target |-> timeline.target, tween |-> j,
                               frame |-> currentFrame])
                 ELSE s
       IN EmitEveryTween(s1, n, timeline, currentFrame, j + 1)

RECURSIVE ApplyEveryTween(_, _, _, _)
ApplyEveryTween(s, n, currentFrame, i) ==
  IF i < 1 THEN s
  ELSE ApplyEveryTween(
         EmitEveryTween(s, n, s.nodes[n].timelines[i], currentFrame, 1),
         n, currentFrame, i - 1)

\* for (i = _timelines.length - 1; i >= 0; --i): setPosition on the first
\* tween of each timeline that contains currentFrame
RECURSIVE ApplyTweens(_, _, _, _)
ApplyTweens(s, n, currentFrame, i) ==
  IF i < 1 THEN s
  ELSE LET timeline == s.nodes[n].timelines[i]
           j == FirstTweenAt(timeline.tweens, currentFrame)
           s1 == IF j = 0 THEN s
                 ELSE Emit(s, [ev |-> "setPosition", node |-> n,
                               target |-> timeline.target, tween |-> j,
                               frame |-> currentFrame])
       IN ApplyTweens(s1, n, currentFrame, i - 1)

\* a presence array that is never read as true
NeverShouldBeChild(frames, currentFrame) == FALSE

\* _timedChildTimelines[i][currentFrame]; an index outside the array, or
\* NaN, reads undefined
ShouldBeChild(frames, currentFrame) ==
  /\ ~IsNaN(currentFrame)
  /\ currentFrame >= 0
  /\ currentFrame < Len(frames)
  /\ frames[currentFrame + 1]

\* a clip that is reset whatever its autoReset says
ResetsAnyIndependent(tg) == tg.mode = INDEPENDENT

\* if (target.mode == MovieClip.INDEPENDENT && target.autoReset)
ResetsOnAdd(tg) == tg.mode = INDEPENDENT /\ tg.autoReset

\* the attach branch: addChild, then _reset of an INDEPENDENT autoReset clip
AttachTarget(s, n, target) ==
  LET s1 == AddChild(s, n, target)
      tg == s1.nodes[target]
  IN IF ResetsOnAdd(tg)
     THEN [s1 EXCEPT !.nodes[target] = Reset(tg)]
     ELSE s1

RECURSIVE ToggleChildren(_, _, _, _)
ToggleChildren(s, n, currentFrame, i) ==
  IF i > Len(s.nodes[n].timedChildTimelines) THEN s
  ELSE LET tl == s.nodes[n].timedChildTimelines[i]
           target == tl.target
           should == ShouldBeChild(tl.frames, currentFrame)
           isChild == s.nodes[target].parent = n
           s1 == IF should /\ ~isChild
                 THEN LET a == AttachTarget(s, n, target)
                      IN Emit(a, [ev |-> "addChild", node |-> n,
                                  target |-> target,
                                  again |-> s.nodes[target].wasRemoved,
                                  frameBefore |-> s.nodes[target].currentFrame,
                                  tBefore |-> s.nodes[target].t,
                                  currentFrame |-> a.nodes[target].currentFrame,
                                  t |-> a.nodes[target].t,
                                  prevPos |-> a.nodes[target].prevPos])
                 ELSE IF ~should /\ isChild
                 THEN Emit(RemoveChild(s, n, target),
                           [ev |-> "removeChild", node |-> n, target |-> target])
                 ELSE s
       IN ToggleChildren(s1, n, currentFrame, i + 1)

\* the frame scripts of frame i, in the order they were added
RECURSIVE FireFrame(_, _, _, _)
FireFrame(s, n, i, j) ==
  LET actions == s.nodes[n].actions
  IN IF i < 0 \/ i >= Len(actions) THEN s
     ELSE IF j > Len(actions[i + 1]) THEN s
     ELSE FireFrame(Emit(s, [ev |-> "action", node |-> n, frame |-> i,
                             callback |-> actions[i + 1][j]]),
                    n, i, j + 1)

\* the body and the step of: for (i = startFrame, length = ...; i < length;
\* ++i) { ...; if (needsLoop && i == length - 1) { i = 0; length =
\* currentFrame + 1; needsLoop = false; } }
RECURSIVE ActionLoop(_, _, _, _, _, _)
ActionLoop(s, n, i, length, needsLoop, currentFrame) ==
  IF ~NumLt(i, length) THEN s
  ELSE LET s1 == FireFrame(s, n, i, 1)
       IN IF needsLoop /\ i = length - 1
          THEN ActionLoop(s1, n, 0 + 1, NumAdd(currentFrame, 1), FALSE,
                          currentFrame)
          ELSE ActionLoop(s1, n, i + 1, length, needsLoop, currentFrame)

\* if (doActions) { ... }: the loop starts at startFrame with length
\* Math.min(currentFrame + 1, actions.length), whatever needsLoop is
FireActions(s, n, startFrame, currentFrame) ==
  LET needsLoop == NumLt(currentFrame, startFrame)
      length == MathMin(NumAdd(currentFrame, 1), Len(s.nodes[n].actions))
  IN ActionLoop(s, n, startFrame, length, needsLoop, currentFrame)

RECURSIVE SetTimelinePosition(_, _, _, _, _)
RECURSIVE UpdateTimeline(_, _)
RECURSIVE SyncChildren(_, _, _, _, _)

\* an offset counted from the child's own startPosition
OffsetFromStartPosition(currentFrame, child) ==
  NumSub(currentFrame, child.startPosition)

\* currentFrame - child.parentStartPosition
SynchOffsetOf(currentFrame, child) ==
  NumSub(currentFrame, child.parentStartPosition)

\* for (i = 0, length = children.length; i < length; ++i): every SYNCHED
\* child gets its _synchOffset and its own _updateTimeline
SyncChildren(s, n, currentFrame, children, i) ==
  IF i > Len(children) THEN s
  ELSE LET c == children[i]
           s1 == IF s.nodes[c].mode = SYNCHED
                 THEN UpdateTimeline(
                        [s EXCEPT !.nodes[c].synchOffset =
                           SynchOffsetOf(currentFrame, s.nodes[c])],
                        c)
                 ELSE s
       IN SyncChildren(s1, n, currentFrame, children, i + 1)

SetTimelinePosition(s, n, startFrame, currentFrame, doActions) ==
  LET s0 == Emit(s, [ev |-> "pass", node |-> n, startFrame |-> startFrame,
                     frame |-> currentFrame, doActions |-> doActions])
      s1 == ApplyTweens(s0, n, currentFrame, Len(s0.nodes[n].timelines))
      s2 == ToggleChildren(s1, n, currentFrame, 1)
      s3 == SyncChildren(s2, n, currentFrame, s2.nodes[n].children, 1)
  IN IF doActions THEN FireActions(s3, n, startFrame, currentFrame) ELSE s3

\* the frame _updateTimeline gives a clip that is not INDEPENDENT
SynchedFrame(nd) ==
  LET f == NumAdd(nd.startPosition,
                  IF nd.mode = SINGLE_FRAME THEN 0 ELSE nd.synchOffset)
  IN IF NumGe(f, nd.totalFrames) THEN JsMod(f, nd.totalFrames) ELSE f

\* if (this._prevPos == this.currentFrame) return;
AlreadyThere(prevPos, frame) == LooseEq(prevPos, frame)

\* a pass that runs the frame scripts of a synched clip as it does those
\* of an INDEPENDENT one
DoActionsAnyMode(synched, actionsEnabled) == actionsEnabled

\* synched ? false : this.actionsEnabled
DoActions(synched, actionsEnabled) ==
  IF synched THEN FALSE ELSE actionsEnabled

\* _updateTimeline
UpdateTimeline(s, n) ==
  LET nd == s.nodes[n]
      synched == nd.mode # INDEPENDENT
      frame == IF synched THEN SynchedFrame(nd) ELSE nd.currentFrame
      s1 == [s EXCEPT !.nodes[n].currentFrame = frame]
  IN IF AlreadyThere(nd.prevPos, frame) THEN s1
     ELSE LET startFrame == IF NumLt(nd.prevPos, 0) THEN 0 ELSE nd.prevPos
              s2 == SetTimelinePosition(s1, n, startFrame, frame,
                      DoActions(synched, nd.actionsEnabled))
          IN [s2 EXCEPT !.nodes[n].prevPos = s2.nodes[n].currentFrame]

(***************************************************************************)
(* The public methods, as operators on stores.                             *)
(***************************************************************************)

\* addTween of the Timeline of one target: a segment from startFrame to
\* startFrame + duration, after the segments the timeline has
TimelineAddTween(timeline, startFrame, duration) ==
  [timeline EXCEPT !.tweens =
     Append(@, [startFrame |-> startFrame, endFrame |-> startFrame + duration])]

\* for (i = this._timelines.length - 1; i >= 0; --i) if (... .target ==
\* instance): the index of the timeline of the target, or 0
TimelineIndex(timelines, target) ==
  LET hits == {i \in 1..Len(timelines) : timelines[i].target = target}
  IN IF hits = {} THEN 0 ELSE CHOOSE i \in hits : \A k \in hits : i >= k

\* addTween
AddTweenOp(s, n, target, startFrame, duration) ==
  LET nd == s.nodes[n]
      i == TimelineIndex(nd.timelines, target)
      tls == IF i = 0
             THEN Append(nd.timelines, [target |-> target, tweens |-> <<>>])
             ELSE nd.timelines
      k == IF i = 0 THEN Len(tls) ELSE i
      tls1 == [tls EXCEPT ![k] = TimelineAddTween(@, startFrame, duration)]
      total == IF nd.totalFrames < startFrame + duration
               THEN startFrame + duration ELSE nd.totalFrames
  IN [s EXCEPT !.nodes[n].timelines = tls1, !.nodes[n].totalFrames = total]

\* the boolean array of a timed child after addTimedChild has grown and
\* filled it
FillPresence(frames, startFrame, duration) ==
  LET oldLength == Len(frames)
      newLength == IF oldLength < startFrame + duration
                   THEN startFrame + duration ELSE oldLength
  IN [k \in 1..newLength |->
        IF k > startFrame /\ k <= startFrame + duration THEN TRUE
        ELSE IF k <= oldLength THEN frames[k]
        ELSE FALSE]

\* addTimedChild (called without keyframes); a duration below 1 stands for
\* this._totalFrames || 1
AddTimedChildOp(s, n, c, startFrame, durationArg) ==
  LET nd == s.nodes[n]
      duration == IF durationArg < 1
                  THEN (IF nd.totalFrames # 0 THEN nd.totalFrames ELSE 1)
                  ELSE durationArg
      s1 == IF s.nodes[c].mode = SYNCHED
            THEN [s EXCEPT !.nodes[c].parentStartPosition = startFrame]
            ELSE s
      i == TimelineIndex(nd.timedChildTimelines, c)
      tls == IF i = 0
             THEN Append(nd.timedChildTimelines, [target |-> c, frames |-> <<>>])
             ELSE nd.timedChildTimelines
      k == IF i = 0 THEN Len(tls) ELSE i
      tls1 == [tls EXCEPT ![k].frames = FillPresence(@, startFrame, duration)]
      total == IF nd.totalFrames < startFrame + duration
               THEN startFrame + duration ELSE nd.totalFrames
      s2 == [s1 EXCEPT !.nodes[n].timedChildTimelines = tls1,
                       !.nodes[n].totalFrames = total]
  IN SetTimelinePosition(s2, n, startFrame, s2.nodes[n].currentFrame, TRUE)

\* addAction
AddActionOp(s, n, callback, startFrame) ==
  LET nd == s.nodes[n]
      len == IF Len(nd.actions) <= startFrame
             THEN startFrame + 1 ELSE Len(nd.actions)
      grown == [k \in 1..len |->
                  IF k <= Len(nd.actions) THEN nd.actions[k] ELSE <<>>]
      total == IF nd.totalFrames < startFrame
               THEN startFrame ELSE nd.totalFrames
  IN [s EXCEPT !.nodes[n].actions =
                 [grown EXCEPT ![startFrame + 1] = Append(@, callback)],
               !.nodes[n].totalFrames = total]

\* pos == null
IsNull(pos) == pos = Undefined

\* _goto, once positionOrLabel is turned into pos; a function divided by the
\* framerate is NaN
GotoOp(s, n, pos) ==
  IF IsNull(pos) THEN s
  ELSE LET nd == s.nodes[n]
           nd1 == [nd EXCEPT
                     !.prevPos = IF nd.prevPos = NeverResolved THEN NaN ELSE @,
                     !.currentFrame = pos,
                     !.t = IF nd.framerate > 0
                           THEN (IF IsNaN(pos) THEN NaN
                                 ELSE (pos * TicksPerSecond) \div nd.framerate)
                           ELSE 0]
       IN UpdateTimeline([s EXCEPT !.nodes[n] = nd1], n)

\* while ((o = o.parent) && !fps) if (o.mode == INDEPENDENT) fps = o._framerate
RECURSIVE AncestorFramerate(_, _)
AncestorFramerate(s, o) ==
  LET up == s.nodes[o].parent
  IN IF up = NoParent THEN 0
     ELSE IF s.nodes[up].mode = INDEPENDENT /\ s.nodes[up].framerate # 0
     THEN s.nodes[up].framerate
     ELSE AncestorFramerate(s, up)

\* a loop that starts every round at time 0
RestartedTime(t, duration) == 0

\* this._t - this._duration, the time a looping clip goes on from
LoopedTime(t, duration) == t - duration

\* the elapsed time and the frame advance computes before _updateTimeline
AdvanceClock(nd, time) ==
  LET t1 == IF time # 0 THEN NumAdd(nd.t, time) ELSE nd.t
      t2 == IF NumLt(nd.duration, t1)
            THEN (IF nd.loop THEN LoopedTime(t1, nd.duration) ELSE nd.duration)
            ELSE t1
      frame == IF IsNaN(t2) THEN NaN
               ELSE (t2 * nd.framerate) \div TicksPerSecond
      clamped == IF NumGe(frame, nd.totalFrames)
                 THEN nd.totalFrames - 1 ELSE frame
  IN [nd EXCEPT !.t = t2, !.currentFrame = clamped]

\* advance
AdvanceOp(s, n, time) ==
  LET nd == s.nodes[n]
      nd1 == IF nd.framerate = 0
             THEN FramerateSet(nd, AncestorFramerate(s, n))
             ELSE nd
  IN UpdateTimeline([s EXCEPT !.nodes[n] = AdvanceClock(nd1, time)], n)

(***************************************************************************)
(* Actions: one call of a public method on one clip.  lastOp records the   *)
(* method, the clip and what a seek was given; log starts empty at every   *)
(* call.                                                                   *)
(***************************************************************************)
Store == [nodes |-> nodes, log |-> <<>>]

Commit(s, kind, n, arg, name) ==
  /\ nodes' = s.nodes
  /\ log' = s.log
  /\ lastOp' = [kind |-> kind, node |-> n, arg |-> arg, name |-> name]

NumTweens(n, target) ==
  LET i == TimelineIndex(nodes[n].timelines, target)
  IN IF i = 0 THEN 0 ELSE Len(nodes[n].timelines[i].tweens)

RECURSIVE SumLen(_, _)
SumLen(q, i) == IF i > Len(q) THEN 0 ELSE Len(q[i]) + SumLen(q, i + 1)

AddTween(n) ==
  \E target \in Targets, startFrame \in 0..MaxFrame, duration \in TweenDurations :
    /\ NumTweens(n, target) < MaxTweens
    /\ Commit(AddTweenOp(Store, n, target, startFrame, duration),
              "addTween", n, 0, "")

\* every call of addAction passes a function of its own: the k-th call on
\* a clip passes callback k
AddAction(n) ==
  \E startFrame \in 0..MaxFrame :
    LET callback == SumLen(nodes[n].actions, 1) + 1
    IN /\ callback <= MaxActions
       /\ Commit(AddActionOp(Store, n, callback, startFrame),
                 "addAction", n, 0, "")

\* addTimedChild without a duration makes the clip startFrame frames longer
\* every time: it is not taken beyond MaxTotalFrames
AddTimedChild(n, c) ==
  \E startFrame \in 0..MaxFrame, duration \in ChildDurations :
    LET s == AddTimedChildOp(Store, n, c, startFrame, duration)
    IN /\ s.nodes[n].totalFrames <= MaxTotalFrames
       /\ Commit(s, "addTimedChild", n, 0, "")

\* the setter of elapsedTime
SetElapsedTime(n) ==
  \E value \in ElapsedTimes :
    Commit([Store EXCEPT !.nodes[n].t = value], "elapsedTime", n, 0, "")

SetFramerate(n) ==
  \E value \in Framerates :
    Commit([Store EXCEPT !.nodes[n] = FramerateSet(@, value)],
           "framerate", n, 0, "")

Advance(n, deltas) ==
  \E time \in deltas :
    LET s == AdvanceOp(Store, n, time)
    IN /\ s.nodes[n].t <= MaxT
       /\ Commit(s, "advance", n, 0, "")

\* gotoAndPlay(pos) with a frame number
GotoAndPlay(n) ==
  \E pos \in SeekFrames :
    Commit(GotoOp([Store EXCEPT !.nodes[n].paused = FALSE], n, pos),
           "gotoFrame", n, pos, "")

\* gotoAndStop(pos) with a frame number
GotoAndStop(n) ==
  \E pos \in SeekFrames :
    Commit(GotoOp([Store EXCEPT !.nodes[n].paused = TRUE], n, pos),
           "gotoFrame", n, pos, "")

\* this._labelDict[positionOrLabel]: an own property of the labels object,
\* or else what the object inherits, or else undefined
LabelPos(name) ==
  IF name \in DOMAIN LabelDict THEN LabelDict[name]
  ELSE IF name \in DOMAIN ObjectPrototype THEN ObjectPrototype[name]
  ELSE Undefined

\* gotoAndPlay(name) and gotoAndStop(name) with a label name
GotoLabel(n) ==
  \E name \in LabelNames, stop \in BOOLEAN :
    Commit(GotoOp([Store EXCEPT !.nodes[n].paused = stop], n,
                  LabelPos(name)),
           "gotoLabel", n, 0, name)

(***************************************************************************)
(* Spec: one INDEPENDENT clip on its own, looping or not, constructed with *)
(* or without an explicit duration; frame scripts are added to it, its     *)
(* framerate is set, it is advanced and sought.                            *)
(***************************************************************************)
NoOp == [kind |-> "new", node |-> Root, arg |-> 0, name |-> ""]

Idle == NewMovieClip(INDEPENDENT, 0, FALSE, 0, 0)

Init ==
  /\ \E loop \in BOOLEAN, optDuration \in {0, MaxFrame + 2} :
       nodes = [n \in Nodes |->
                  IF n = Root
                  THEN NewMovieClip(INDEPENDENT, 0, loop, optDuration, 0)
                  ELSE Idle]
  /\ log = <<>>
  /\ lastOp = NoOp

Next ==
  \/ AddAction(Root)
  \/ SetFramerate(Root)
  \/ SetElapsedTime(Root)
  \/ Advance(Root, Deltas)
  \/ GotoAndPlay(Root)
  \/ GotoAndStop(Root)
  \/ GotoLabel(Root)

Spec == Init /\ [][Next]_vars

(***************************************************************************)
(* SpecReg: the registrations on a clip of any mode constructed without    *)
(* an explicit duration, with a second clip as its timed child.            *)
(***************************************************************************)
InitReg ==
  /\ \E mode \in Modes, startPosition \in {0, 1} :
       nodes = [n \in Nodes |->
                  IF n = Root
                  THEN NewMovieClip(mode, startPosition, TRUE, 0, 0)
                  ELSE Idle]
  /\ log = <<>>
  /\ lastOp = NoOp

NextReg ==
  \/ AddTween(Root)
  \/ AddAction(Root)
  \/ AddTimedChild(Root, Child)

SpecReg == InitReg /\ [][NextReg]_vars

(***************************************************************************)
(* SpecTree: an INDEPENDENT clip and a second clip of any mode that it     *)
(* shows as a timed child.  The child is constructed with a duration and   *)
(* a framerate, so that it has frames to show and its seeks set an elapsed *)
(* time; autoReset is a public field, set right after construction.        *)
(***************************************************************************)
InitTree ==
  /\ \E mode \in Modes, startPosition \in {0, 1}, autoReset \in BOOLEAN :
       /\ mode = INDEPENDENT => startPosition = 0
       /\ mode # INDEPENDENT => autoReset
       /\ nodes = [n \in Nodes |->
                     IF n = Root
                     THEN NewMovieClip(INDEPENDENT, 0, FALSE, 0, 0)
                     ELSE IF n = Child
                     THEN [NewMovieClip(mode, startPosition, FALSE,
                                        MaxFrame + 1, 1)
                             EXCEPT !.autoReset = autoReset]
                     ELSE Idle]
  /\ log = <<>>
  /\ lastOp = NoOp

NextTree ==
  \/ AddTimedChild(Root, Child)
  \/ Advance(Root, {1})
  \/ Advance(Child, {1, 2})
  \/ GotoAndPlay(Root)
  \/ GotoAndPlay(Child)

SpecTree == InitTree /\ [][NextTree]_vars

(***************************************************************************)
(* What a call did, read off the log.                                      *)
(***************************************************************************)
PlaybackKinds == {"advance", "gotoFrame", "gotoLabel"}

\* the call ran a pass on the clip it was made on
RanPass == log # <<>> /\ log[1].ev = "pass" /\ log[1].node = lastOp.node

\* the frame scripts the call ran on clip n, as <<frame, callback>>
FiredOn(n) ==
  LET a == SelectSeq(log, LAMBDA e : e.ev = "action" /\ e.node = n)
  IN [i \in 1..Len(a) |-> <<a[i].frame, a[i].callback>>]

\* the frame scripts of frame f of clip n, in the order they were added
ScriptsOf(n, f) ==
  IF f < 0 \/ f >= Len(nodes[n].actions) THEN <<>>
  ELSE [j \in 1..Len(nodes[n].actions[f + 1]) |->
          <<f, nodes[n].actions[f + 1][j]>>]

\* the frame scripts of frames from..to of clip n, in ascending frame order
RECURSIVE ScriptsIn(_, _, _)
ScriptsIn(n, from, to) ==
  IF from > to THEN <<>>
  ELSE ScriptsOf(n, from) \o ScriptsIn(n, from + 1, to)

(***************************************************************************)
(* C1.  A pass with actions that an advance runs on a looping INDEPENDENT  *)
(* clip whose clock looped (newFrame < startFrame) runs the scripts of the *)
(* frames after startFrame up to the last frame, then those of frames      *)
(* 0..newFrame, in ascending order, each once.                             *)
(***************************************************************************)
C1_WrapFiresAcrossSeam ==
  LET n == lastOp.node
  IN (/\ lastOp.kind = "advance"
      /\ RanPass
      /\ log[1].doActions
      /\ nodes[n].mode = INDEPENDENT
      /\ nodes[n].loop
      /\ nodes[n].framerate > 0
      /\ NumLt(log[1].frame, log[1].startFrame))
     => FiredOn(n) = ScriptsIn(n, log[1].startFrame + 1,
                               nodes[n].totalFrames - 1)
                     \o ScriptsIn(n, 0, log[1].frame)

(***************************************************************************)
(* C2.  A forward pass with actions (newFrame >= startFrame, startFrame    *)
(* being 0 on the first resolution and the previous resolved frame         *)
(* otherwise) runs exactly the scripts of the frames in                    *)
(* (startFrame, newFrame], in ascending frame order and, within a frame,   *)
(* in the order they were added.                                           *)
(***************************************************************************)
C2_ForwardFiresHalfOpenRange ==
  LET n == lastOp.node
      start == IF IsNaN(log[1].startFrame) THEN 0 ELSE log[1].startFrame
  IN (/\ lastOp.kind \in PlaybackKinds
      /\ RanPass
      /\ log[1].doActions
      /\ NumGe(log[1].frame, start))
     => FiredOn(n) = ScriptsIn(n, start + 1, log[1].frame)

(***************************************************************************)
(* C3.  The current frame of every clip is in [0, totalFrames) when        *)
(* totalFrames > 0 and is 0 when totalFrames is 0.                         *)
(***************************************************************************)
C3_FrameInRange ==
  \A n \in Nodes :
    /\ nodes[n].totalFrames > 0 =>
         /\ nodes[n].currentFrame >= 0
         /\ nodes[n].currentFrame < nodes[n].totalFrames
    /\ nodes[n].totalFrames = 0 => nodes[n].currentFrame = 0

\* what a call on clip n did once it had entered _setTimelinePosition on n:
\* every tween set, child added, child removed and script run, by n or by
\* any other clip, and every pass run on another clip; the one event left
\* out is the mark that n's own pass began
EffectsOf(events, n) ==
  SelectSeq(events, LAMBDA e : e.ev # "pass" \/ e.node # n)

(***************************************************************************)
(* C4.  A seek or an advance that resolves a clip to the frame it was      *)
(* last resolved to does nothing: no tween is set, no child is added or    *)
(* removed, no pass runs on a synched child, no script is run.             *)
(***************************************************************************)
C4_SameFrameIsNoOp ==
  [][(/\ lastOp'.kind \in {"advance", "gotoFrame"}
      /\ LooseEq(nodes'[lastOp'.node].currentFrame, nodes[lastOp'.node].prevPos))
     => EffectsOf(log', lastOp'.node) = <<>>]_vars

(***************************************************************************)
(* C5.  As claimed: a pass of the parent at frame F gives an attached      *)
(* SYNCHED child with startPosition S and totalFrames T the offset F - S   *)
(* and the frame (S + (F - S)) mod T.                                      *)
(***************************************************************************)
C5_OffsetFromStartPosition ==
  LET c == nodes[Child]
      F == nodes[Root].currentFrame
  IN (/\ lastOp.node = Root
      /\ RanPass
      /\ c.parent = Root
      /\ c.mode = SYNCHED)
     => /\ c.synchOffset = F - c.startPosition
        /\ c.currentFrame = JsMod(c.startPosition + (F - c.startPosition),
                                  c.totalFrames)

(***************************************************************************)
(* C5, amended.  A pass of the parent at frame F gives an attached SYNCHED *)
(* child the offset F - P, P being the start frame of the last             *)
(* addTimedChild that registered it, and the frame S + (F - P), taken      *)
(* modulo T when it is T or more.                                          *)
(***************************************************************************)
C5_OffsetFromRegisteredStart ==
  LET c == nodes[Child]
      F == nodes[Root].currentFrame
      x == c.startPosition + (F - c.parentStartPosition)
  IN (/\ lastOp.node = Root
      /\ RanPass
      /\ c.parent = Root
      /\ c.mode = SYNCHED)
     => /\ c.synchOffset = F - c.parentStartPosition
        /\ c.currentFrame = IF x >= c.totalFrames THEN JsMod(x, c.totalFrames)
                                                   ELSE x

\* a synched child registered at a frame that is not its startPosition,
\* resolved by a pass of the parent to a frame that is not F mod T
C5_Witness ==
  /\ lastOp.node = Root
  /\ RanPass
  /\ nodes[Child].parent = Root
  /\ nodes[Child].mode = SYNCHED
  /\ nodes[Child].parentStartPosition # nodes[Child].startPosition
  /\ nodes[Root].currentFrame > 0
  /\ nodes[Child].currentFrame #
       JsMod(nodes[Root].currentFrame, nodes[Child].totalFrames)

(***************************************************************************)
(* C6.  On a clip constructed without a duration, totalFrames is one more  *)
(* than the largest of: the end frame (startFrame + duration) of a tween,  *)
(* the last frame of a timed child, the frame of a script.                 *)
(***************************************************************************)
RegisteredEnds(n) ==
  UNION {{nodes[n].timelines[i].tweens[j].endFrame :
            j \in 1..Len(nodes[n].timelines[i].tweens)} :
           i \in 1..Len(nodes[n].timelines)}
  \cup {Len(nodes[n].timedChildTimelines[i].frames) - 1 :
          i \in 1..Len(nodes[n].timedChildTimelines)}
  \cup {f \in 0..(Len(nodes[n].actions) - 1) : nodes[n].actions[f + 1] # <<>>}

C6_TotalFramesIsMaxEndPlusOne ==
  \A n \in Nodes :
    (nodes[n].optDuration = 0 /\ RegisteredEnds(n) # {})
    => nodes[n].totalFrames =
         1 + (CHOOSE m \in RegisteredEnds(n) :
                \A e \in RegisteredEnds(n) : m >= e)

(***************************************************************************)
(* C7.  A seek to a frame number at or beyond totalFrames (> 0) leaves     *)
(* the clip on frame totalFrames - 1, and the pass runs for that frame.    *)
(***************************************************************************)
C7_SeekBeyondEndClamps ==
  LET n == lastOp.node
  IN (/\ lastOp.kind = "gotoFrame"
      /\ nodes[n].totalFrames > 0
      /\ lastOp.arg >= nodes[n].totalFrames)
     => /\ nodes[n].currentFrame = nodes[n].totalFrames - 1
        /\ RanPass => log[1].frame = nodes[n].totalFrames - 1

(***************************************************************************)
(* C8.  A seek to a label the clip does not have changes neither the       *)
(* current frame, nor the elapsed time, nor the last resolved frame, and   *)
(* runs no pass.                                                           *)
(***************************************************************************)
C8_UnknownLabelIgnored ==
  [][(/\ lastOp'.kind = "gotoLabel"
      /\ lastOp'.name \notin DOMAIN LabelDict)
     => /\ nodes'[lastOp'.node].currentFrame = nodes[lastOp'.node].currentFrame
        /\ nodes'[lastOp'.node].t = nodes[lastOp'.node].t
        /\ nodes'[lastOp'.node].prevPos = nodes[lastOp'.node].prevPos
        /\ log' = <<>>]_vars

(***************************************************************************)
(* C9.  Whenever the content of a SINGLE_FRAME clip is applied (a pass     *)
(* runs on it), it is applied for frame startPosition mod totalFrames.     *)
(***************************************************************************)
C9_SingleFrameAppliesStartPosition ==
  \A i \in 1..Len(log) :
    (/\ log[i].ev = "pass"
     /\ nodes[log[i].node].mode = SINGLE_FRAME
     /\ nodes[log[i].node].totalFrames > 0)
    => log[i].frame =
         nodes[log[i].node].startPosition % nodes[log[i].node].totalFrames

(***************************************************************************)
(* C10.  When a pass adds back a timed child that a pass had removed, an   *)
(* INDEPENDENT child with autoReset is on frame 0 at time 0 and marked     *)
(* never resolved; any other child has the frame and the time it had.      *)
(***************************************************************************)
C10_ResetOnReattach ==
  \A i \in 1..Len(log) :
    (log[i].ev = "addChild" /\ log[i].again)
    => IF /\ nodes[log[i].target].mode = INDEPENDENT
          /\ nodes[log[i].target].autoReset
       THEN /\ log[i].currentFrame = 0
            /\ log[i].t = 0
            /\ log[i].prevPos = NeverResolved
       ELSE /\ log[i].currentFrame = log[i].frameBefore
            /\ log[i].t = log[i].tBefore

\* an INDEPENDENT autoReset child that had been removed on a later frame
\* and at a later time is added back
C10_Witness ==
  \E i \in 1..Len(log) :
    /\ log[i].ev = "addChild"
    /\ log[i].again
    /\ nodes[log[i].target].mode = INDEPENDENT
    /\ nodes[log[i].target].autoReset
    /\ log[i].frameBefore > 0
    /\ log[i].tBefore > 0

(***************************************************************************)
(* C11.  Whenever the framerate of a clip is above 0, its duration is      *)
(* totalFrames / framerate (here in ticks: duration * framerate is         *)
(* totalFrames * TicksPerSecond).                                          *)
(***************************************************************************)
C11_DurationFollowsTotalFrames ==
  \A n \in Nodes :
    nodes[n].framerate > 0
    => nodes[n].duration * nodes[n].framerate =
         nodes[n].totalFrames * TicksPerSecond

(***************************************************************************)
(* C12.  An advance of a clip whose framerate is 0 and that has no         *)
(* INDEPENDENT ancestor with a framerate leaves the clip on the frame it   *)
(* was on (stated for a clip that has frames and is on one of them).       *)
(***************************************************************************)
C12_StaticWithoutFramerate ==
  [][(/\ lastOp'.kind = "advance"
      /\ nodes[lastOp'.node].currentFrame >= 0
      /\ nodes[lastOp'.node].currentFrame < nodes[lastOp'.node].totalFrames
      /\ nodes[lastOp'.node].framerate = 0
      /\ AncestorFramerate(Store, lastOp'.node) = 0)
     => nodes'[lastOp'.node].currentFrame = nodes[lastOp'.node].currentFrame]_vars

(***************************************************************************)
(* SpecLoop: one INDEPENDENT clip constructed with a duration and a        *)
(* framerate, looping or not; frame scripts are added to it and it is      *)
(* advanced by up to two rounds of its timeline, lastOp keeping the time   *)
(* of the advance.                                                         *)
(***************************************************************************)
LoopDeltas == 0..(2 * (MaxFrame + 2) * TicksPerSecond - 1)

AdvanceBy(n, deltas) ==
  \E time \in deltas :
    LET s == AdvanceOp(Store, n, time)
    IN /\ s.nodes[n].t <= MaxT
       /\ Commit(s, "advanceBy", n, time, "")

InitLoop ==
  /\ \E loop \in BOOLEAN, optDuration \in {MaxFrame + 1, MaxFrame + 2} :
       nodes = [n \in Nodes |->
                  IF n = Root
                  THEN NewMovieClip(INDEPENDENT, 0, loop, optDuration, 1)
                  ELSE Idle]
  /\ log = <<>>
  /\ lastOp = NoOp

NextLoop ==
  \/ AddAction(Root)
  \/ AdvanceBy(Root, LoopDeltas)

SpecLoop == InitLoop /\ [][NextLoop]_vars

(***************************************************************************)
(* C14.  On a looping INDEPENDENT clip with a framerate and duration D,    *)
(* standing on frame 0 at time 0, advance(D + x) with 0 < x < D leaves the *)
(* frame and the elapsed time that advance(x) leaves.                      *)
(***************************************************************************)
C14_LoopedAdvanceEqualsRemainder ==
  [][(/\ lastOp'.kind = "advanceBy"
      /\ nodes[lastOp'.node].mode = INDEPENDENT
      /\ nodes[lastOp'.node].loop
      /\ nodes[lastOp'.node].framerate > 0
      /\ nodes[lastOp'.node].currentFrame = 0
      /\ nodes[lastOp'.node].t = 0
      /\ lastOp'.arg > nodes[lastOp'.node].duration
      /\ lastOp'.arg < 2 * nodes[lastOp'.node].duration)
     => LET n == lastOp'.node
            x == lastOp'.arg - nodes[n].duration
            alone == AdvanceOp(Store, n, x).nodes[n]
        IN /\ nodes'[n].currentFrame = alone.currentFrame
           /\ nodes'[n].t = alone.t]_vars

\* a looping clip advanced from time 0 by more than one round, onto a later
\* frame of the next round
C14_Witness ==
  /\ lastOp.kind = "advanceBy"
  /\ nodes[lastOp.node].loop
  /\ lastOp.arg > nodes[lastOp.node].duration
  /\ lastOp.arg < 2 * nodes[lastOp.node].duration
  /\ nodes[lastOp.node].t = lastOp.arg - nodes[lastOp.node].duration
  /\ nodes[lastOp.node].currentFrame > 0
  /\ RanPass

(***************************************************************************)
(* C17.  On a clip that is only advanced and does not loop, a frame script *)
(* that one advance has run is not run again by the next advance.          *)
(***************************************************************************)
C17_ScriptRunsOnce ==
  [][(/\ lastOp.kind = "advanceBy"
      /\ lastOp'.kind = "advanceBy"
      /\ lastOp'.node = lastOp.node
      /\ ~nodes[lastOp.node].loop
      /\ nodes[lastOp.node].actionsEnabled
      /\ ~nodes[lastOp.node].paused)
     => \A i \in 1..Len(FiredOn(lastOp.node)) :
          \A j \in 1..Len(log') :
            ~(/\ log'[j].ev = "action"
              /\ log'[j].node = lastOp.node
              /\ log'[j].callback = FiredOn(lastOp.node)[i][2])]_vars

(***************************************************************************)
(* The tick listener, play and stop.  The ticker hands the listener of an  *)
(* INDEPENDENT clip a time, taken here in seconds as advance takes it; a   *)
(* clip listens from the moment it is added to a container until it is     *)
(* removed.  selfAdvance is left at its default, true.                     *)
(***************************************************************************)
\* a listener that resolves a paused clip on every tick
AlwaysNeedsUpdate(prevPos) == TRUE

\* if (this._prevPos < 0)
NeedsUpdate(prevPos) == NumLt(prevPos, 0)

\* _tickListener
TickOp(s, n, seconds) ==
  LET nd == s.nodes[n]
  IN IF nd.paused
     THEN (IF NeedsUpdate(nd.prevPos) THEN GotoOp(s, n, nd.currentFrame) ELSE s)
     ELSE AdvanceOp(s, n, seconds)

\* the ticker holds the listener of an INDEPENDENT clip from its "added"
\* event to its "removed" event, and never again once destroy has set it
\* to null
Tick(n, deltas) ==
  \E seconds \in deltas :
    LET s == TickOp(Store, n, seconds)
    IN /\ nodes[n].mode = INDEPENDENT
       /\ nodes[n].parent # NoParent
       /\ nodes[n].tickListener
       /\ s.nodes[n].t <= MaxT
       /\ Commit(s, "tick", n, 0, "")

\* the clips of a sequence destroyed one after the other
RECURSIVE DestroyEach(_, _, _, _)

\* destroy: the listener leaves the ticker and is set to null; then
\* Container.destroy takes the clip off its parent and its children off
\* the clip, and destroys these too when destroyChildren is given
DestroyOp(s, n, destroyChildren) ==
  LET s1 == [s EXCEPT !.nodes[n].tickListener = FALSE]
      up == s1.nodes[n].parent
      s2 == IF up = NoParent THEN s1 ELSE RemoveChild(s1, up, n)
      oldChildren == s2.nodes[n].children
      s3 == RemoveChildren(s2, n)
  IN IF destroyChildren THEN DestroyEach(s3, oldChildren, 1, TRUE) ELSE s3

DestroyEach(s, clips, i, destroyChildren) ==
  IF i > Len(clips) THEN s
  ELSE DestroyEach(DestroyOp(s, clips[i], destroyChildren), clips, i + 1,
                   destroyChildren)

Destroy(n) ==
  \E destroyChildren \in BOOLEAN :
    Commit(DestroyOp(Store, n, destroyChildren), "destroy", n, 0, "")

\* play
Play(n) ==
  Commit([Store EXCEPT !.nodes[n].paused = FALSE], "play", n, 0, "")

\* stop
Stop(n) ==
  Commit([Store EXCEPT !.nodes[n].paused = TRUE], "stop", n, 0, "")

(***************************************************************************)
(* SpecTick: an INDEPENDENT clip with a framerate holds an INDEPENDENT     *)
(* autoReset child as a timed child; the parent is sought, which adds and  *)
(* removes the child; the child gets tweens on frame 0, is played,         *)
(* stopped, ticked while it is on the parent, and destroyed.               *)
(***************************************************************************)
\* addTween of properties set on frame 0
AddTweenFirst(n) ==
  \E target \in Targets :
    /\ NumTweens(n, target) < MaxTweens
    /\ Commit(AddTweenOp(Store, n, target, 0, 0), "addTween", n, 0, "")

InitTick ==
  /\ nodes = [n \in Nodes |->
                IF n = Root
                THEN NewMovieClip(INDEPENDENT, 0, FALSE, 0, 1)
                ELSE IF n = Child
                THEN NewMovieClip(INDEPENDENT, 0, FALSE, MaxFrame + 1, 1)
                ELSE Idle]
  /\ log = <<>>
  /\ lastOp = NoOp

NextTick ==
  \/ AddTimedChild(Root, Child)
  \/ GotoAndPlay(Root)
  \/ AddTweenFirst(Child)
  \/ Play(Child)
  \/ Stop(Child)
  \/ Destroy(Child)
  \/ Tick(Child, {1, 2})

SpecTick == InitTick /\ [][NextTick]_vars

\* the passes a call ran on clip n
PassesOn(events, n) ==
  SelectSeq(events, LAMBDA e : e.ev = "pass" /\ e.node = n)

(***************************************************************************)
(* C13.  A tick given to a paused INDEPENDENT clip that was never resolved *)
(* or was reset resolves the frame the clip is on, once, and leaves the    *)
(* clip on it; a tick given to a paused clip that is resolved changes      *)
(* nothing and calls nothing.                                              *)
(***************************************************************************)
C13_PausedTickResolvesOnce ==
  [][(/\ lastOp'.kind = "tick"
      /\ nodes[lastOp'.node].mode = INDEPENDENT
      /\ nodes[lastOp'.node].paused)
     => LET n == lastOp'.node
        IN IF nodes[n].prevPos = NeverResolved
           THEN /\ nodes'[n].currentFrame = nodes[n].currentFrame
                /\ Len(PassesOn(log', n)) = 1
                /\ PassesOn(log', n)[1].frame = nodes[n].currentFrame
           ELSE /\ nodes' = nodes
                /\ log' = <<>>]_vars

\* a paused child that was removed, added back and reset is ticked: the
\* tick sets its tween for frame 0
C13_Witness ==
  /\ lastOp.kind = "tick"
  /\ nodes[lastOp.node].paused
  /\ nodes[lastOp.node].wasRemoved
  /\ nodes[lastOp.node].currentFrame = 0
  /\ nodes[lastOp.node].prevPos = 0
  /\ RanPass
  /\ \E i \in 1..Len(log) : log[i].ev = "setPosition"

(***************************************************************************)
(* SpecPass: an INDEPENDENT clip gets tweens (up to MaxOverlap on the one  *)
(* target, so that tweens of one timeline overlap), scripts on frame 0 and *)
(* a SYNCHED timed child, and is sought, so that one pass sets tweens,     *)
(* adds or removes the child, resolves it and runs scripts.                *)
(***************************************************************************)
MaxOverlap == MaxTweens + 1

\* addTween of a tween over every frame from 0 to MaxFrame
AddTweenOver(n) ==
  \E target \in Targets :
    /\ NumTweens(n, target) < MaxOverlap
    /\ Commit(AddTweenOp(Store, n, target, 0, MaxFrame),
              "addTween", n, 0, "")

\* addAction of a script on frame 0
AddActionFirst(n) ==
  LET callback == SumLen(nodes[n].actions, 1) + 1
  IN /\ callback <= MaxActions
     /\ Commit(AddActionOp(Store, n, callback, 0), "addAction", n, 0, "")

InitPass ==
  /\ nodes = [n \in Nodes |->
                IF n = Root
                THEN NewMovieClip(INDEPENDENT, 0, FALSE, 0, 0)
                ELSE IF n = Child
                THEN NewMovieClip(SYNCHED, 0, FALSE, MaxFrame + 1, 0)
                ELSE Idle]
  /\ log = <<>>
  /\ lastOp = NoOp

NextPass ==
  \/ AddTweenOver(Root)
  \/ AddActionFirst(Root)
  \/ AddTimedChild(Root, Child)
  \/ GotoAndPlay(Root)

SpecPass == InitPass /\ [][NextPass]_vars

\* the place of an event in the pass of clip n: 1 its tweens, 2 its timed
\* children, 3 what happens on other clips (its synched children), 4 its
\* frame scripts
PhaseOf(e, n) ==
  IF e.node # n THEN 3
  ELSE IF e.ev = "setPosition" THEN 1
  ELSE IF e.ev \in {"addChild", "removeChild"} THEN 2
  ELSE 4

(***************************************************************************)
(* C19.  In a pass on a clip, its tweens are set before its timed children *)
(* are added or removed, these before its synched children are resolved,   *)
(* these before its frame scripts are run; and no two tweens of one        *)
(* timeline are set.                                                       *)
(***************************************************************************)
C19_PassOrder ==
  (Len(log) > 0 /\ log[1].ev = "pass")
  => LET n == log[1].node
     IN \A i, j \in 2..Len(log) :
          i < j =>
            /\ PhaseOf(log[i], n) <= PhaseOf(log[j], n)
            /\ ~(/\ log[i].ev = "setPosition"
                 /\ log[j].ev = "setPosition"
                 /\ log[i].node = log[j].node
                 /\ log[i].target = log[j].target)

\* one pass that sets a tween of a timeline holding two tweens over the
\* frame, adds the synched child, resolves it and runs a frame script
C19_Witness ==
  /\ Len(log) > 0
  /\ log[1].ev = "pass"
  /\ \E i \in 1..Len(nodes[Root].timelines) :
       \E j, k \in 1..Len(nodes[Root].timelines[i].tweens) :
         /\ j # k
         /\ nodes[Root].timelines[i].tweens[j].startFrame <= log[1].frame
         /\ nodes[Root].timelines[i].tweens[j].endFrame >= log[1].frame
         /\ nodes[Root].timelines[i].tweens[k].startFrame <= log[1].frame
         /\ nodes[Root].timelines[i].tweens[k].endFrame >= log[1].frame
  /\ \E a, b, c, d \in 2..Len(log) :
       /\ log[a].ev = "setPosition" /\ log[a].node = Root
       /\ log[b].ev = "addChild" /\ log[b].node = Root
       /\ log[c].ev = "pass" /\ log[c].node = Child
       /\ log[d].ev = "action" /\ log[d].node = Root

\* the presence array holds true at frame f; a frame outside it counts as
\* false
PresentAt(frames, f) == f >= 0 /\ f < Len(frames) /\ frames[f + 1]

\* the clips a call ran a pass on
PassedOn == {log[i].node : i \in {k \in 1..Len(log) : log[k].ev = "pass"}}

(***************************************************************************)
(* C20.  After a pass on a clip, and after addTimedChild on it, each of    *)
(* its timed children is on the clip exactly when the child's presence     *)
(* array is true at the clip's current frame.                              *)
(***************************************************************************)
C20_AttachedIffPresent ==
  \A n \in PassedOn :
    \A i \in 1..Len(nodes[n].timedChildTimelines) :
      LET tl == nodes[n].timedChildTimelines[i]
      IN (nodes[tl.target].parent = n)
           <=> PresentAt(tl.frames, nodes[n].currentFrame)

\* addTimedChild over an interval that holds the later frame the clip is
\* on: the child is added by the call itself
C20_Witness ==
  /\ lastOp.kind = "addTimedChild"
  /\ nodes[Root].currentFrame > 0
  /\ nodes[Child].parent = Root
  /\ \E i \in 1..Len(log) : log[i].ev = "addChild" /\ log[i].target = Child

(***************************************************************************)
(* SpecDeep: three clips in a chain.  An INDEPENDENT clip holds a timed    *)
(* child that is SYNCHED or INDEPENDENT, which holds a SYNCHED timed child *)
(* of its own; the two upper clips are sought.  The middle clip is         *)
(* constructed with as many frames as a clip of the model can have, so     *)
(* that registering its child does not lengthen it.                        *)
(***************************************************************************)
InitDeep ==
  /\ \E mode \in {SYNCHED, INDEPENDENT}, startPosition \in {0, 1} :
       nodes = [n \in Nodes |->
                  IF n = Root
                  THEN NewMovieClip(INDEPENDENT, 0, FALSE, 0, 0)
                  ELSE IF n = Child
                  THEN NewMovieClip(mode, 0, FALSE, MaxTotalFrames, 0)
                  ELSE NewMovieClip(SYNCHED, startPosition, FALSE,
                                    MaxFrame + 1, 0)]
  /\ log = <<>>
  /\ lastOp = NoOp

NextDeep ==
  \/ AddTimedChild(Root, Child)
  \/ AddTimedChild(Child, Leaf)
  \/ GotoAndPlay(Root)
  \/ GotoAndPlay(Child)

SpecDeep == InitDeep /\ [][NextDeep]_vars

\* clip d is on a chain of parents that leads up to clip n
RECURSIVE IsUnder(_, _)
IsUnder(d, n) ==
  /\ nodes[d].parent # NoParent
  /\ \/ nodes[d].parent = n
     \/ IsUnder(nodes[d].parent, n)

\* the frame of a SYNCHED clip d that follows from the frame its parent is
\* on: startPosition + (parent frame - registered start), taken modulo
\* totalFrames when it is totalFrames or more
FrameFromParent(d) ==
  LET x == NumAdd(nodes[d].startPosition,
                  NumSub(nodes[nodes[d].parent].currentFrame,
                         nodes[d].parentStartPosition))
  IN IF NumGe(x, nodes[d].totalFrames) THEN JsMod(x, nodes[d].totalFrames)
     ELSE x

(***************************************************************************)
(* C18.  When an advance or a seek on a clip returns, every SYNCHED clip   *)
(* below it, at any depth, is on the frame that follows from the frame its *)
(* parent is on now (stated where that frame is not negative).             *)
(***************************************************************************)
C18_SynchedFollowParent ==
  lastOp.kind \in {"advance", "gotoFrame"}
  => \A d \in Nodes :
       (/\ nodes[d].mode = SYNCHED
        /\ IsUnder(d, lastOp.node)
        /\ NumGe(FrameFromParent(d), 0))
       => nodes[d].currentFrame = FrameFromParent(d)

(***************************************************************************)
(* addKeyframes.  A keyframe string is a sequence of one-character         *)
(* strings; numbers in it are written with digits only (the strings of the *)
(* model hold no sign, point or exponent).                                 *)
(***************************************************************************)
\* the characters of the keyframe strings given to addKeyframes: digits,
\* two codes of keysMap, a letter that is not a key of keysMap, the space
KeyChars == {"0", "1", "X", "Y", "x", " "}
\* the strings given to addKeyframes
KeyframeStrings == UNION {[1..k -> KeyChars] : k \in 0..MaxKeyLen}

\* var keysMap
keysMap ==
  [X |-> "x", Y |-> "y", A |-> "sx", B |-> "sy", C |-> "kx", D |-> "ky",
   R |-> "r", L |-> "a", T |-> "t", F |-> "c", V |-> "v"]

DecDigits == <<"0", "1", "2", "3", "4", "5", "6", "7", "8", "9">>
HexLower == DecDigits \o <<"a", "b", "c", "d", "e", "f">>
HexUpper == DecDigits \o <<"A", "B", "C", "D", "E", "F">>

\* the value of character c as a digit of the radix, or NaN
DigitValue(c, radix) ==
  LET hits == {k \in 1..radix : HexLower[k] = c \/ HexUpper[k] = c}
  IN IF hits = {} THEN NaN ELSE (CHOOSE k \in hits : TRUE) - 1

\* the number of characters of buffer from position i on that are digits
RECURSIVE DigitRun(_, _, _)
DigitRun(buffer, i, radix) ==
  IF i > Len(buffer) \/ IsNaN(DigitValue(buffer[i], radix)) THEN 0
  ELSE 1 + DigitRun(buffer, i + 1, radix)

\* the value of the k digits of buffer that follow position i
RECURSIVE DigitsValue(_, _, _, _)
DigitsValue(buffer, i, k, radix) ==
  IF k = 0 THEN 0
  ELSE radix * DigitsValue(buffer, i, k - 1, radix)
         + DigitValue(buffer[i + k], radix)

\* the number written by the longest run of digits at the head of buffer
\* after its first i characters, NaN when there is none
NumberAt(buffer, i, radix) ==
  LET k == DigitRun(buffer, i + 1, radix)
  IN IF k = 0 THEN NaN ELSE DigitsValue(buffer, i, k, radix)

\* parseFloat: a leading "0x" is the number 0 followed by a letter
parseFloat(buffer) == NumberAt(buffer, 0, 10)

HasHexPrefix(buffer) ==
  /\ Len(buffer) >= 2
  /\ buffer[1] = "0"
  /\ buffer[2] \in {"x", "X"}

\* parseInt(buffer, radix); radix 0 stands for a call without a radix
parseInt(buffer, radix) ==
  IF radix \in {0, 16} /\ HasHexPrefix(buffer) THEN NumberAt(buffer, 2, 16)
  ELSE IF radix = 0 THEN NumberAt(buffer, 0, 10)
  ELSE NumberAt(buffer, 0, radix)

\* !!x of a number
ToBoolean(x) == ~IsNaN(x) /\ x # 0

\* buffer.split(','), from position i with the piece begun in acc
RECURSIVE SplitComma(_, _, _)
SplitComma(buffer, i, acc) ==
  IF i > Len(buffer) THEN <<acc>>
  ELSE IF buffer[i] = "," THEN <<acc>> \o SplitComma(buffer, i + 1, <<>>)
  ELSE SplitComma(buffer, i + 1, Append(acc, buffer[i]))

\* the values of properties: what typeof gives for the value, then the
\* value
Num(x) == <<"number", x>>
Str(x) == <<"string", x>>
Bool(x) == <<"boolean", x>>
Arr(x) == <<"object", x>>
ValueOf(value) == value[2]

\* frame[prop] = value
SetProp(frame, prop, value) ==
  [p \in DOMAIN frame \cup {prop} |-> IF p = prop THEN value ELSE frame[p]]

\* var parseValue; the value of prop before the first code of a string is
\* undefined, after a space it is null, and frame[undefined] is the
\* property "undefined"
parseValue(frame, prop, buffer) ==
  IF prop = "c"
  THEN LET pieces == SplitComma(buffer, 1, <<>>)
       IN SetProp(frame, "c",
                  Arr([k \in 1..Len(pieces) |-> parseFloat(pieces[k])]))
  ELSE IF prop = "t" THEN SetProp(frame, "t", Str(buffer))
  ELSE IF prop = "v"
  THEN SetProp(frame, "v", Bool(ToBoolean(parseInt(buffer, 0))))
  ELSE SetProp(frame, prop, Num(parseFloat(buffer)))

\* frame = {}
EmptyFrame == [p \in {} |-> 0]

\* result[key] = frame: a key the object has keeps its place
PutKey(result, key, frame) ==
  IF \E k \in 1..Len(result) : result[k].key = key
  THEN [k \in 1..Len(result) |->
          IF result[k].key = key THEN [key |-> key, frame |-> frame]
          ELSE result[k]]
  ELSE Append(result, [key |-> key, frame |-> frame])

\* the frame object of the record being read is changed in place: once it
\* is started, result[key] is that object
WithFrame(st, frame) ==
  [st EXCEPT !.frame = frame,
             !.result = IF st.isFrameStarted
                        THEN PutKey(@, st.key, frame) ELSE @]

\* while (i < keyframes.length)
RECURSIVE DecodeFrom(_, _)
DecodeFrom(keyframes, st) ==
  IF st.i >= Len(keyframes) THEN st.result
  ELSE
    LET c == keyframes[st.i + 1]
    IN IF c \in DOMAIN keysMap
       THEN LET started ==
                  IF ~st.isFrameStarted
                  THEN [st EXCEPT !.isFrameStarted = TRUE,
                                  !.key = st.buffer,
                                  !.result = PutKey(@, st.buffer, st.frame)]
                  ELSE st
                parsed ==
                  IF started.prop \notin {"undefined", "null"}
                  THEN WithFrame(started,
                                 parseValue(started.frame, started.prop,
                                            started.buffer))
                  ELSE started
            IN DecodeFrom(keyframes,
                          [parsed EXCEPT !.prop = keysMap[c],
                                         !.buffer = <<>>,
                                         !.i = @ + 1])
       ELSE IF c = " "
       THEN LET parsed == WithFrame(st, parseValue(st.frame, st.prop,
                                                   st.buffer))
            IN DecodeFrom(keyframes,
                          [parsed EXCEPT !.i = @ + 1,
                                         !.buffer = <<>>,
                                         !.prop = "null",
                                         !.frame = EmptyFrame,
                                         !.isFrameStarted = FALSE])
       ELSE DecodeFrom(keyframes,
                       [st EXCEPT !.buffer = Append(@, c), !.i = @ + 1])

\* the object a keyframe string is converted into, as the sequence of its
\* keys in the order they were created, each with its frame
DecodeKeyframes(keyframes) ==
  DecodeFrom(keyframes,
             [i |-> 0, buffer |-> <<>>, isFrameStarted |-> FALSE,
              prop |-> "undefined", frame |-> EmptyFrame, key |-> <<>>,
              result |-> <<>>])

\* a key that is an array index: the decimal form of a number
IsArrayIndex(key) ==
  /\ Len(key) > 0
  /\ DigitRun(key, 1, 10) = Len(key)
  /\ (key[1] = "0" => Len(key) = 1)

\* the positions of result that hold array indices, by ascending index
RECURSIVE IndexKeysAscending(_, _)
IndexKeysAscending(result, left) ==
  IF left = {} THEN <<>>
  ELSE LET k == CHOOSE k \in left :
                  \A m \in left :
                    parseInt(result[k].key, 10) <= parseInt(result[m].key, 10)
       IN <<k>> \o IndexKeysAscending(result, left \ {k})

\* for (i in keyframes): array indices in ascending order, then the other
\* keys in the order they were created
ForInOrder(result) ==
  LET idx == {k \in 1..Len(result) : IsArrayIndex(result[k].key)}
      pos == [k \in 1..Len(result) |-> k]
  IN IndexKeysAscending(result, idx)
       \o SelectSeq(pos, LAMBDA k : ~IsArrayIndex(result[k].key))

\* typeof properties[prop]
TypeOf(properties, prop) ==
  IF prop \in DOMAIN properties THEN properties[prop][1] ELSE "undefined"

\* str.substr(1)
Substr1(str) == IF Len(str) = 0 THEN <<>> ELSE Tail(str)

\* "Convert any string colors to uints" of addTween: if (typeof
\* properties.t == "string") ... else if (typeof properties.v == "number")
TweenProperties(properties) ==
  IF TypeOf(properties, "t") = "string"
  THEN SetProp(properties, "t",
               Num(parseInt(Substr1(ValueOf(properties["t"])), 16)))
  ELSE IF TypeOf(properties, "v") = "number"
  THEN SetProp(properties, "v",
               Bool(ToBoolean(ValueOf(properties["v"]))))
  ELSE properties

\* addTween, with the properties it hands to the Timeline of the target
AddTweenWith(s, n, target, properties, startFrame, duration) ==
  Emit(AddTweenOp(s, n, target, startFrame, duration),
       [ev |-> "addTween", node |-> n, target |-> target,
        properties |-> TweenProperties(properties),
        startFrame |-> startFrame, duration |-> duration])

\* this.addTween(instance, keyframes[i], parseInt(i, 10)) for the keys
\* order[j..]
RECURSIVE AddTweensOf(_, _, _, _, _, _)
AddTweensOf(s, n, target, result, order, j) ==
  IF j > Len(order) THEN s
  ELSE AddTweensOf(AddTweenWith(s, n, target, result[order[j]].frame,
                                parseInt(result[order[j]].key, 10), 0),
                   n, target, result, order, j + 1)

\* addKeyframes of a string
AddKeyframesOp(s, n, target, keyframes) ==
  IF keyframes = <<>> THEN s
  ELSE LET result == DecodeKeyframes(keyframes)
       IN AddTweensOf(s, n, target, result, ForInOrder(result), 1)

\* one call of addKeyframes on a clip that has no tween yet
AddKeyframes(n) ==
  /\ nodes[n].timelines = <<>>
  /\ lastOp.kind = "new"
  /\ \E target \in Targets, keyframes \in KeyframeStrings :
       Commit(AddKeyframesOp(Store, n, target, keyframes),
              "addKeyframes", n, keyframes, "")

(***************************************************************************)
(* SpecKeys: a clip constructed without a duration is given one keyframe   *)
(* string.                                                                 *)
(***************************************************************************)
InitKeys ==
  /\ nodes = [n \in Nodes |->
               IF n = Root
               THEN NewMovieClip(INDEPENDENT, 0, FALSE, 0, 0)
               ELSE Idle]
  /\ log = <<>>
  /\ lastOp = NoOp

NextKeys == AddKeyframes(Root)

SpecKeys == InitKeys /\ [][NextKeys]_vars

\* the frame records of a keyframe string: its pieces between spaces
RECURSIVE RecordsFrom(_, _, _)
RecordsFrom(keyframes, i, acc) ==
  IF i > Len(keyframes) THEN <<acc>>
  ELSE IF keyframes[i] = " "
  THEN <<acc>> \o RecordsFrom(keyframes, i + 1, <<>>)
  ELSE RecordsFrom(keyframes, i + 1, Append(acc, keyframes[i]))

\* the positions of a record that hold a code
CodesOf(record) == {p \in 1..Len(record) : record[p] \in DOMAIN keysMap}

\* a record of the format: a frame index in digits, then pairs of a code
\* for a number and a value in digits, no code twice
IsRecord(record) ==
  /\ Len(record) > 0
  /\ ~IsNaN(DigitValue(record[1], 10))
  /\ \A p \in 1..Len(record) :
       \/ ~IsNaN(DigitValue(record[p], 10))
       \/ /\ p \in CodesOf(record)
          /\ keysMap[record[p]] \notin {"c", "t", "v"}
          /\ p < Len(record)
          /\ ~IsNaN(DigitValue(record[p + 1], 10))
          /\ \A q \in CodesOf(record) : record[q] = record[p] => q = p

\* the tween the format gives for a record: at its frame index, with
\* duration 0 and every pair of the record
TweenOfRecord(record) ==
  [startFrame |-> NumberAt(record, 0, 10),
   duration |-> 0,
   properties |->
     [prop \in {keysMap[record[p]] : p \in CodesOf(record)} |->
        LET p == CHOOSE p \in CodesOf(record) : keysMap[record[p]] = prop
        IN Num(NumberAt(record, p, 10))]]

SameTween(a, b) ==
  /\ a.startFrame = b.startFrame
  /\ a.duration = b.duration
  /\ DOMAIN a.properties = DOMAIN b.properties
  /\ \A prop \in DOMAIN a.properties : a.properties[prop] = b.properties[prop]

\* the calls of addTween made by the last call, in order
TweensAdded == SelectSeq(log, LAMBDA e : e.ev = "addTween")

(***************************************************************************)
(* C15.  addKeyframes of a string of frame records separated by single     *)
(* spaces, with no space after the last record, calls addTween once for    *)
(* every record: at the frame index of the record, with duration 0 and     *)
(* with every code/value pair of the record, those of the last record      *)
(* included.                                                               *)
(***************************************************************************)
C15_TweenPerRecord ==
  (/\ lastOp.kind = "addKeyframes"
   /\ \A k \in 1..Len(RecordsFrom(lastOp.arg, 1, <<>>)) :
        IsRecord(RecordsFrom(lastOp.arg, 1, <<>>)[k]))
  => LET records == RecordsFrom(lastOp.arg, 1, <<>>)
         wanted == [k \in 1..Len(records) |-> TweenOfRecord(records[k])]
         added == TweensAdded
     IN /\ Len(added) = Len(wanted)
        /\ \A k \in 1..Len(wanted) :
             Cardinality({j \in 1..Len(added) : SameTween(added[j], wanted[k])})
               = Cardinality({j \in 1..Len(wanted) :
                                SameTween(wanted[j], wanted[k])})

\* a character that is neither a digit, nor a space, nor a comma, nor a
\* code of keysMap
IsUnknownCode(c) ==
  /\ c \notin DOMAIN keysMap
  /\ c \notin {" ", ","}
  /\ IsNaN(DigitValue(c, 10))

(***************************************************************************)
(* C16.  addKeyframes of a string that holds a letter which is not one of  *)
(* the codes registers no tween: no call of addTween is made, and the      *)
(* tween timelines and totalFrames of the clip are left as they were.      *)
(***************************************************************************)
C16_UnknownCodeRegistersNothing ==
  [][(/\ lastOp'.kind = "addKeyframes"
      /\ \E p \in 1..Len(lastOp'.arg) : IsUnknownCode(lastOp'.arg[p]))
     => /\ TweensAdded' = <<>>
        /\ nodes'[lastOp'.node].timelines = nodes[lastOp'.node].timelines
        /\ nodes'[lastOp'.node].totalFrames
             = nodes[lastOp'.node].totalFrames]_vars

(***************************************************************************)
(* SpecSynch: an INDEPENDENT clip shows a SYNCHED clip as a timed child,   *)
(* which shows a second SYNCHED clip; the SYNCHED clips are constructed    *)
(* with frames and get frame scripts on frame 0, with actionsEnabled (a    *)
(* public field, set right after construction) true or false; the top clip *)
(* is sought.                                                              *)
(***************************************************************************)
\* addTimedChild(instance, startFrame) with no duration: over the frames
\* the clip has, or over one frame
AddTimedChildFrom(n, c) ==
  \E startFrame \in 0..MaxFrame :
    LET s == AddTimedChildOp(Store, n, c, startFrame, 0)
    IN /\ s.nodes[n].totalFrames <= MaxTotalFrames
       /\ Commit(s, "addTimedChild", n, 0, "")

\* addTimedChild(instance) with no startFrame and no duration: from frame
\* 0, over the frames the clip has
AddTimedChildWhole(n, c) ==
  LET s == AddTimedChildOp(Store, n, c, 0, 0)
  IN /\ s.nodes[n].totalFrames <= MaxTotalFrames
     /\ Commit(s, "addTimedChild", n, 0, "")

InitSynch ==
  /\ \E actionsEnabled \in BOOLEAN :
       nodes = [n \in Nodes |->
                  IF n = Root
                  THEN NewMovieClip(INDEPENDENT, 0, FALSE, 0, 0)
                  ELSE [NewMovieClip(SYNCHED, 0, FALSE, MaxFrame + 1, 0)
                          EXCEPT !.actionsEnabled = actionsEnabled]]
  /\ log = <<>>
  /\ lastOp = NoOp

NextSynch ==
  \/ AddActionFirst(Child)
  \/ AddActionFirst(Leaf)
  \/ AddTimedChildFrom(Root, Child)
  \/ AddTimedChildWhole(Child, Leaf)
  \/ GotoAndPlay(Root)

SpecSynch == InitSynch /\ [][NextSynch]_vars

\* what a pass does apart from running frame scripts
PassEffects == {"pass", "setPosition", "addChild", "removeChild"}

(***************************************************************************)
(* C21.  A call on a clip runs no frame script of a SYNCHED clip below it, *)
(* whatever the actionsEnabled of that clip: the passes it hands down only *)
(* set tweens, add and remove timed children and resolve further SYNCHED   *)
(* clips.                                                                  *)
(***************************************************************************)
C21_NoScriptsOnSynchedPass ==
  \A k \in 1..Len(log) :
    (/\ log[k].node # lastOp.node
     /\ nodes[log[k].node].mode = SYNCHED)
    => /\ log[k].ev # "action"
       /\ log[k].ev \in PassEffects

\* a seek of the top clip hands a pass to a SYNCHED clip with
\* actionsEnabled true, and the pass goes over a frame that has a script
C21_Witness ==
  /\ lastOp.kind = "gotoFrame"
  /\ lastOp.node = Root
  /\ \E k \in 1..Len(log) :
       /\ log[k].ev = "pass"
       /\ log[k].node = Child
       /\ nodes[Child].actionsEnabled
       /\ NumGe(log[k].frame, log[k].startFrame)
       /\ \E f \in log[k].startFrame..log[k].frame :
            /\ f + 1 <= Len(nodes[Child].actions)
            /\ nodes[Child].actions[f + 1] # <<>>

(***************************************************************************)
(* SpecProps: a clip is given tweens with property sets that hold a tint   *)
(* (a "#rrggbb" string cut to two digits, or a number), a visibility flag  *)
(* (a number or a boolean) and a position, each present or not.            *)
(***************************************************************************)
\* the tints given to addTween
Tints == {Str(<<"#", "f", "f">>), Str(<<"#", "1", "0">>), Num(255)}
\* the visibility flags given to addTween
Visibles == {Num(0), Num(1), Bool(TRUE), Bool(FALSE)}
\* the x positions given to addTween
Positions == {Num(1)}

\* a property set whose properties hold values of their own kind
IsPropertySet(properties) ==
  /\ "t" \in DOMAIN properties => properties["t"] \in Tints
  /\ "v" \in DOMAIN properties => properties["v"] \in Visibles
  /\ "x" \in DOMAIN properties => properties["x"] \in Positions

\* the property sets given to addTween
PropertySets ==
  {properties \in UNION {[dom -> Tints \cup Visibles \cup Positions] :
                           dom \in SUBSET {"t", "v", "x"}} :
     IsPropertySet(properties)}

\* addTween(instance, properties, startFrame, duration)
AddTweenProps(n) ==
  /\ \A target \in Targets : NumTweens(n, target) < MaxTweens
  /\ \E target \in Targets, startFrame \in 0..MaxFrame,
        duration \in TweenDurations, properties \in PropertySets :
       Commit(AddTweenWith(Store, n, target, properties, startFrame,
                           duration),
              "addTweenProps", n, properties, "")

InitProps ==
  /\ nodes = [n \in Nodes |-> Idle]
  /\ log = <<>>
  /\ lastOp = NoOp

NextProps == AddTweenProps(Root)

SpecProps == InitProps /\ [][NextProps]_vars

\* the properties the last call of addTween handed to the Timeline
PropertiesHanded == TweensAdded[1].properties

(***************************************************************************)
(* C22.  Of the property set given to addTween, a tint that is a string    *)
(* reaches the Timeline as the number its hex digits write, and a          *)
(* visibility flag that is a number reaches it as a boolean, each whether  *)
(* or not the other is in the set.                                         *)
(***************************************************************************)
C22_TintAndVisibleConverted ==
  lastOp.kind = "addTweenProps"
  => /\ TypeOf(lastOp.arg, "t") = "string"
          => /\ TypeOf(PropertiesHanded, "t") = "number"
             /\ ValueOf(PropertiesHanded["t"])
                  = parseInt(Substr1(ValueOf(lastOp.arg["t"])), 16)
     /\ TypeOf(lastOp.arg, "v") = "number"
          => /\ TypeOf(PropertiesHanded, "v") = "boolean"
             /\ ValueOf(PropertiesHanded["v"])
                  = (ValueOf(lastOp.arg["v"]) # 0)

(***************************************************************************)
(* C23.  addTween, addAction and addTimedChild run no frame script and     *)
(* leave the frame, the elapsed time, the paused flag and the last         *)
(* resolved frame of the clip they are called on as they were.             *)
(***************************************************************************)
C23_RegistrationLeavesPlayback ==
  [][lastOp'.kind \in {"addTween", "addAction", "addTimedChild"}
     => LET n == lastOp'.node
        IN /\ \A k \in 1..Len(log') : log'[k].ev # "action"
           /\ nodes'[n].currentFrame = nodes[n].currentFrame
           /\ nodes'[n].t = nodes[n].t
           /\ nodes'[n].paused = nodes[n].paused
           /\ nodes'[n].prevPos = nodes[n].prevPos]_vars

(***************************************************************************)
(* SpecLive: a looping INDEPENDENT clip constructed with a duration and no *)
(* framerate gets frame scripts, then its framerate is set, and from then  *)
(* on it is advanced by the ticker, every time by half a frame or by one   *)
(* frame.  The ticker calls the listener on every frame of the display for *)
(* as long as the clip is on it, so the advance is taken again and again.  *)
(***************************************************************************)
\* the time of one frame at the highest framerate, and half of it
FrameDeltas == {TicksPerSecond \div 2, TicksPerSecond} \ {0}

\* addAction on a clip whose framerate is not set yet
AddActionBefore(n) ==
  /\ nodes[n].framerate = 0
  /\ AddAction(n)

\* the framerate setter, given a positive value once
StartClock(n) ==
  /\ nodes[n].framerate = 0
  /\ \E value \in Framerates \ {0} :
       Commit([Store EXCEPT !.nodes[n] = FramerateSet(@, value)],
              "framerate", n, 0, "")

\* advance of a clip whose framerate is set
AdvanceClocked(n) ==
  /\ nodes[n].framerate > 0
  /\ AdvanceBy(n, FrameDeltas)

InitLive ==
  /\ \E optDuration \in {MaxFrame, MaxFrame + 1} :
       nodes = [n \in Nodes |->
                  IF n = Root
                  THEN NewMovieClip(INDEPENDENT, 0, TRUE, optDuration, 0)
                  ELSE Idle]
  /\ log = <<>>
  /\ lastOp = NoOp

NextLive ==
  \/ AddActionBefore(Root)
  \/ StartClock(Root)
  \/ AdvanceClocked(Root)

SpecLive ==
  InitLive /\ [][NextLive]_vars /\ WF_vars(AdvanceClocked(Root))

\* callback c is a frame script of clip n
IsScriptOf(c, n) ==
  \E f \in 1..Len(nodes[n].actions) :
    \E k \in 1..Len(nodes[n].actions[f]) : nodes[n].actions[f][k] = c

\* the last call was an advance that ran callback c
AdvanceRan(c) ==
  /\ lastOp.kind = "advanceBy"
  /\ \E k \in 1..Len(log) :
       /\ log[k].ev = "action"
       /\ log[k].node = lastOp.node
       /\ log[k].callback = c

(***************************************************************************)
(* C24.  On a looping, unpaused INDEPENDENT clip with actionsEnabled whose *)
(* framerate was set after its scripts were added and which is advanced    *)
(* for ever by at most one frame at a time, every script, whatever frame   *)
(* it was added on, is run by some later advance; as this holds from every *)
(* state on, it is run again on every later loop.                          *)
(***************************************************************************)
C24_EveryScriptRunsAgain ==
  \A c \in 1..MaxActions :
    (/\ nodes[Root].framerate > 0
     /\ nodes[Root].loop
     /\ ~nodes[Root].paused
     /\ nodes[Root].actionsEnabled
     /\ IsScriptOf(c, Root))
    ~> AdvanceRan(c)

====
